---- MODULE Spec2Model ----
(***************************************************************************)
(* The guessing game of src/src/main.rs: the GuessingGame state, its       *)
(* constructor `new` and its transition function `update`, driven by the   *)
(* two Message variants.  Strings are sequences of one-character strings.  *)
(* u32 values are kept as two 16-bit limbs (value = hi*2^16 + lo) so that  *)
(* the 32-bit width of the parse is exact.  Structs, enum variants and     *)
(* Option/Result values are tuples read through the accessors below.       *)
(***************************************************************************)
EXTENDS Integers, Sequences, FiniteSets, TLC

VARIABLES secret_number, guess, message, command, last

vars == <<secret_number, guess, message, command, last>>

(*************************** bounds of the model ***************************)

\* Largest decimal numeral typed into the text field (numerals 0..MaxGuess).
MaxGuess == 101

\* Longest run of whitespace typed before or after a guess.
MaxPad == 1

(***************************** program constants ***************************)

\* gen_range(1..=100)
SecretLow == 1
SecretHigh == 100

\* u32 is two limbs of 16 bits
LimbBase == 65536

\* radix of str::parse::<u32>
Radix == 10

WelcomeMessage == "Welcome to the Guessing Game!"
InvalidMessage == "Please enter a valid number."
TooSmallMessage == "Too small!"
TooBigMessage == "Too big!"
\* the source's text ends with the party-popper emoji U+1F389
YouWinMessage == "You win! [U+1F389]"

CommandNone == "Command::none"
Panicked == "panic"

(******************************* characters ********************************)

DigitChars == <<"0", "1", "2", "3", "4", "5", "6", "7", "8", "9">>

\* char::is_whitespace for the characters of the model's alphabet
WhiteSpace == {" ", "\t"}

\* char::to_digit(10): the digit's value, or -1 for None
to_digit(c) ==
    IF \E i \in 1..Radix : DigitChars[i] = c
    THEN (CHOOSE i \in 1..Radix : DigitChars[i] = c) - 1
    ELSE -1

(********************************* str::trim *******************************)

RECURSIVE trim_start(_)
trim_start(s) ==
    IF s # <<>> /\ Head(s) \in WhiteSpace THEN trim_start(Tail(s)) ELSE s

RECURSIVE trim_end(_)
trim_end(s) ==
    IF s # <<>> /\ s[Len(s)] \in WhiteSpace
    THEN trim_end(SubSeq(s, 1, Len(s) - 1))
    ELSE s

\* a plausible slip: the text is parsed untrimmed
trim_missing(s) == s

trim(s) == trim_end(trim_start(s))

(***************************** u32 arithmetic ******************************)

\* Option<u32> / Result<u32, _> as <<is_some, high limb, low limb>>
None == <<FALSE, 0, 0>>

Some(h, l) == <<TRUE, h, l>>

is_ok(v) == v[1]

hi(v) == v[2]

lo(v) == v[3]

\* a plausible slip: the carry out of the high limb is dropped (wrapping_mul)
wrapping_mul(v, m) ==
    LET l == lo(v) * m
        h == hi(v) * m + (l \div LimbBase)
    IN  Some(h % LimbBase, l % LimbBase)

\* u32::checked_mul by a small factor
checked_mul(v, m) ==
    LET l == lo(v) * m
        h == hi(v) * m + (l \div LimbBase)
    IN  IF h >= LimbBase THEN None ELSE Some(h, l % LimbBase)

\* u32::checked_add of a small addend
checked_add(v, d) ==
    LET l == lo(v) + d
        h == hi(v) + (l \div LimbBase)
    IN  IF h >= LimbBase THEN None ELSE Some(h, l % LimbBase)

\* the secret (1..=100) as a u32
u32_of(n) == Some(n \div LimbBase, n % LimbBase)

\* u32::cmp
cmp(a, b) ==
    IF hi(a) < hi(b) \/ (hi(a) = hi(b) /\ lo(a) < lo(b)) THEN "Less"
    ELSE IF hi(a) = hi(b) /\ lo(a) = lo(b) THEN "Equal"
    ELSE "Greater"

(**************************** str::parse::<u32> ****************************)

RECURSIVE from_digits(_, _)
from_digits(digits, acc) ==
    IF digits = <<>> THEN acc
    ELSE LET d == to_digit(Head(digits))
         IN  IF d < 0 THEN None
             ELSE LET m == checked_mul(acc, Radix)
                  IN  IF ~is_ok(m) THEN None
                      ELSE LET a == checked_add(m, d)
                           IN  IF ~is_ok(a) THEN None
                               ELSE from_digits(Tail(digits), a)

\* a plausible slip: a signed parse followed by a cast, so "-5" is read as 5
parse_signed(src) ==
    IF src = <<>> THEN None
    ELSE IF Len(src) = 1 /\ src[1] \in {"+", "-"} THEN None
    ELSE IF src[1] \in {"+", "-"} THEN from_digits(Tail(src), Some(0, 0))
    ELSE from_digits(src, Some(0, 0))

parse(src) ==
    IF src = <<>> THEN None
    ELSE IF Len(src) = 1 /\ src[1] \in {"+", "-"} THEN None
    ELSE IF src[1] = "+" THEN from_digits(Tail(src), Some(0, 0))
    ELSE from_digits(src, Some(0, 0))

(************************** the text field's inputs ************************)

\* the decimal numeral of n, as the user types it
RECURSIVE Numeral(_)
Numeral(n) ==
    IF n < Radix THEN <<DigitChars[n + 1]>>
    ELSE Numeral(n \div Radix) \o <<DigitChars[(n % Radix) + 1]>>

GuessValues == 0..MaxGuess

RECURSIVE Run(_, _)
Run(c, k) == IF k = 0 THEN <<>> ELSE <<c>> \o Run(c, k - 1)

\* whitespace typed around a guess
Pads == { Run(" ", k) : k \in 0..MaxPad } \cup { <<"\t">> }

\* 2^32 - 1, the largest u32
U32MaxText == <<"4", "2", "9", "4", "9", "6", "7", "2", "9", "5">>

\* 2^32, 2^32 + 50 and a numeral of eleven digits
OverflowTexts ==
    { <<"4", "2", "9", "4", "9", "6", "7", "2", "9", "6">>,
      <<"4", "2", "9", "4", "9", "6", "7", "3", "4", "6">>,
      <<"9", "9", "9", "9", "9", "9", "9", "9", "9", "9", "9">> }

NegativeTexts == { <<"-", "5">>, <<"-", "5", "0">>, <<"-", "1">> }

NonNumericTexts ==
    { <<"a", "b", "c">>, <<"f", "o", "o">>, <<"1", "2", ".", "5">>,
      <<"1", " ", "0">>, <<"5", "a">>, <<"-">>, <<"+">> }

\* the texts of the game: every numeral, a few padded ones, a few invalid ones
Texts ==
    { Numeral(n) : n \in GuessValues }
        \cup { <<" ", "1", "0">>, <<"9", "0", " ">>, <<"\t", "5", "0", " ">> }
        \cup { <<>>, <<"f", "o", "o">>, <<"a", "b", "c">>, <<"-", "5">>,
               <<"1", "2", ".", "5">> }

\* values typed with whitespace around them when the parse is exercised
ParseValues == { 0, 1, 50, 100, 65535, 65536 }

PaddedBodies ==
    { <<>>, Numeral(50), U32MaxText, <<"-", "5">>,
      <<"4", "2", "9", "4", "9", "6", "7", "3", "4", "6">> }

\* the texts that exercise trim and parse
ParseTexts ==
    { Numeral(n) : n \in ParseValues }
        \cup OverflowTexts \cup NegativeTexts \cup NonNumericTexts
        \cup { p \o b \o q : p \in Pads, b \in PaddedBodies, q \in Pads }

(****************************** GuessingGame *******************************)

\* struct GuessingGame as <<secret_number, guess, message>>
GuessingGame(secret, text, msg) == <<secret, text, msg>>

secret_of(self) == self[1]

guess_of(self) == self[2]

message_of(self) == self[3]

with_guess(self, text) == GuessingGame(secret_of(self), text, message_of(self))

with_message(self, msg) == GuessingGame(secret_of(self), guess_of(self), msg)

\* what a call leaves behind: <<self after the call, the Command returned>>
Returned(state, cmd) == <<state, cmd>>

self_of(r) == r[1]

command_of(r) == r[2]

\* enum Message as <<tag>> or <<tag, payload>>
InputMsg(value) == <<"GuessInputChanged", value>>

ButtonMsg == <<"GuessButtonPressed">>

NoMsg == <<"none">>

tag(msg) == msg[1]

value_of(msg) == msg[2]

\* GuessingGame::new with the number drawn by gen_range
new(n) == Returned(GuessingGame(n, <<>>, WelcomeMessage), CommandNone)

\* a plausible slip: the input is normalised when it is stored
GuessInputChangedTrimmed(self, value) == with_guess(self, trim(value))

\* a plausible slip: typing wipes the feedback
GuessInputChangedWipes(self, value) ==
    with_message(with_guess(self, value), WelcomeMessage)

\* Message::GuessInputChanged(value) => self.guess = value
GuessInputChanged(self, value) == with_guess(self, value)

\* a plausible slip: the input field is cleared on the error path too
ParseErrClears(self) ==
    Returned(with_guess(with_message(self, InvalidMessage), <<>>), CommandNone)

\* a plausible slip: .expect("Please type a number!") instead of the match
ParseErrPanics(self) == Returned(self, Panicked)

\* Err(_) => { self.message = ...; return Command::none() }
ParseErr(self) == Returned(with_message(self, InvalidMessage), CommandNone)

\* Ordering::Less => ...
OrderingLess(self) == with_message(self, TooSmallMessage)

\* a plausible slip: the arm copied from Ordering::Less
OrderingGreaterCopied(self) == with_message(self, TooSmallMessage)

\* Ordering::Greater => ...
OrderingGreater(self) == with_message(self, TooBigMessage)

\* a plausible slip: the reset the source's comment mentions
OrderingEqualResets(self) ==
    GuessingGame((secret_of(self) % SecretHigh) + SecretLow, guess_of(self),
                 YouWinMessage)

\* Ordering::Equal => ...
OrderingEqual(self) == with_message(self, YouWinMessage)

\* a plausible slip: self.secret_number.cmp(&guess)
CompareReversed(self, num) ==
    LET ord == cmp(u32_of(secret_of(self)), num)
    IN  IF ord = "Less" THEN OrderingLess(self)
        ELSE IF ord = "Greater" THEN OrderingGreater(self)
        ELSE OrderingEqual(self)

\* match guess.cmp(&self.secret_number)
Compare(self, num) ==
    LET ord == cmp(num, u32_of(secret_of(self)))
    IN  IF ord = "Less" THEN OrderingLess(self)
        ELSE IF ord = "Greater" THEN OrderingGreater(self)
        ELSE OrderingEqual(self)

\* a plausible slip: the input field is not cleared
clear_missing(self) == self

\* self.guess.clear()
clear(self) == with_guess(self, <<>>)

\* Message::GuessButtonPressed => ...
GuessButtonPressed(self) ==
    LET parsed == parse(trim(guess_of(self)))
    IN  IF ~is_ok(parsed) THEN ParseErr(self)
        ELSE Returned(clear(Compare(self, parsed)), CommandNone)

update(self, msg) ==
    IF tag(msg) = "GuessInputChanged"
    THEN Returned(GuessInputChanged(self, value_of(msg)), CommandNone)
    ELSE GuessButtonPressed(self)

(****************************** state machine ******************************)

Self == GuessingGame(secret_number, guess, message)

\* a plausible slip: gen_range(0..=100)
SecretRangeFromZero == 0..SecretHigh

SecretRange == SecretLow..SecretHigh

Init ==
    \E n \in SecretRange :
        /\ secret_number = secret_of(self_of(new(n)))
        /\ guess = guess_of(self_of(new(n)))
        /\ message = message_of(self_of(new(n)))
        /\ command = command_of(new(n))
        /\ last = NoMsg

\* the event loop is alive: no call has panicked
Running == command = CommandNone

\* the runtime hands one Message to update and keeps what it returns
Dispatch(msg) ==
    LET r == update(Self, msg)
    IN  /\ secret_number' = secret_of(self_of(r))
        /\ guess' = guess_of(self_of(r))
        /\ message' = message_of(self_of(r))
        /\ command' = command_of(r)
        /\ last' = msg

\* the text field reports its new content
InputChanged ==
    /\ Running
    /\ \E value \in Texts : Dispatch(InputMsg(value))

\* the same, with the texts that exercise trim and parse
ParseInputChanged ==
    /\ Running
    /\ \E value \in ParseTexts : Dispatch(InputMsg(value))

\* the "Guess" button is pressed
ButtonPressed ==
    /\ Running
    /\ Dispatch(ButtonMsg)

Next == InputChanged \/ ButtonPressed

Spec == Init /\ [][Next]_vars

ParseNext == ParseInputChanged \/ ButtonPressed

ParseSpec == Init /\ [][ParseNext]_vars

(**************************** what the claims say **************************)

\* the texts that spell the value n with whitespace around it
Denoting(n) == { p \o Numeral(n) \o q : p \in Pads, q \in Pads }

\* a text with whitespace around it
Padded(b) == { p \o b \o q : p \in Pads, q \in Pads }

\* Denoting as a table over the numerals of the game and of the parse
Spelled == [n \in GuessValues \cup ParseValues |-> Denoting(n)]

\* the texts the parse must reject, with whitespace around them
RejectedPadded ==
    UNION { Padded(b) : b \in OverflowTexts \cup NegativeTexts \cup {<<>>} }

U32MaxPadded == Padded(U32MaxText)

\* the texts that are no non-negative integer
NotANumber ==
    NonNumericTexts \cup NegativeTexts \cup Padded(<<>>) \cup Padded(<<"-", "5">>)

\* the feedback the game owes a guess of value g, by integer comparison
Expected(g, s) ==
    IF g < s THEN "Too small!"
    ELSE IF g > s THEN "Too big!"
    ELSE "You win! [U+1F389]"

CompareMessages == { "Too small!", "Too big!", "You win! [U+1F389]" }

\* the feedback owed to a text of the game
Outcome(text, s) ==
    IF \E g \in GuessValues : text \in Spelled[g]
    THEN Expected(CHOOSE g \in GuessValues : text \in Spelled[g], s)
    ELSE "Please enter a valid number."

\* C1: whenever the button is pressed while the input holds a number g (with
\* or without whitespace around it) smaller than the secret, the message
\* becomes "Too small!" and the input is cleared.
C1_TooSmall ==
    [][tag(last') = "GuessButtonPressed" =>
          \A g \in GuessValues :
              (g < secret_number /\ guess \in Spelled[g])
              => (message' = "Too small!" /\ guess' = <<>>)]_vars

C1_Witness ==
    /\ tag(last) = "GuessButtonPressed"
    /\ message = "Too small!"
    /\ guess = <<>>
    /\ secret_number = SecretHigh

\* C2: whenever the button is pressed while the input holds a number g larger
\* than the secret, the message becomes "Too big!" and the input is cleared.
C2_TooBig ==
    [][tag(last') = "GuessButtonPressed" =>
          \A g \in GuessValues :
              (g > secret_number /\ guess \in Spelled[g])
              => (message' = "Too big!" /\ guess' = <<>>)]_vars

C2_Witness ==
    /\ tag(last) = "GuessButtonPressed"
    /\ message = "Too big!"
    /\ guess = <<>>
    /\ secret_number = SecretLow

\* C3: a pressed button yields "You win!" for the guess equal to the secret and
\* for no other guess value, the secret's numeral can be typed, and the
\* submit leaves the secret as it was.
C3_OnlySecretWins ==
    [][tag(last') = "GuessButtonPressed" =>
          /\ Numeral(secret_number) \in Texts
          /\ secret_number' = secret_number
          /\ \A g \in GuessValues :
                guess \in Spelled[g] =>
                    (message' = "You win! [U+1F389]" <=> g = secret_number)]_vars

C3_Witness ==
    /\ tag(last) = "GuessButtonPressed"
    /\ message = "You win! [U+1F389]"
    /\ guess = <<>>

\* C4: a pressed button over an input that is no non-negative integer (empty,
\* blank, non-numeric, fractional, negative) sets the message to "Please enter
\* a valid number.", and leaves the input and the secret as they were.
C4_InvalidKept ==
    [][(tag(last') = "GuessButtonPressed"
          /\ guess \in NotANumber)
       => /\ message' = "Please enter a valid number."
          /\ message' \notin CompareMessages
          /\ guess' = guess
          /\ secret_number' = secret_number]_vars

C4_Witness ==
    /\ tag(last) = "GuessButtonPressed"
    /\ message = "Please enter a valid number."
    /\ guess = <<"1", "2", ".", "5">>

\* C5: the secret is always within 1..100 and no step changes it.
C5_SecretFixed ==
    /\ [](secret_number \in 1..100)
    /\ [][secret_number' = secret_number]_vars

C5_Witness ==
    /\ tag(last) = "GuessInputChanged"
    /\ message = "You win! [U+1F389]"
    /\ secret_number = SecretHigh

\* C6: an input change stores exactly the text it carries and leaves the
\* message and the secret alone; delivering the same input change again
\* changes nothing.
C6_InputStored ==
    /\ [](tag(last) = "GuessInputChanged" =>
            update(Self, last) = Returned(Self, "Command::none"))
    /\ [][tag(last') = "GuessInputChanged" =>
            /\ guess' = value_of(last')
            /\ message' = message
            /\ secret_number' = secret_number]_vars

C6_Witness ==
    /\ last = InputMsg(<<" ", "1", "0">>)
    /\ guess = <<" ", "1", "0">>
    /\ message = "Too big!"

\* C7 as stated: once the message is "You win!", every later state has the
\* same secret and still the message "You win!".
C7_StaysWon ==
    [][message = "You win! [U+1F389]" =>
          (message' = "You win! [U+1F389]"
              /\ secret_number' = secret_number)]_vars

\* C7 amended: once the message is "You win!", the secret never changes, an
\* input change keeps the message, and the next pressed button replaces the
\* message by the feedback for the input it finds.
C7_WonUntilNextSubmit ==
    [][message = "You win! [U+1F389]" =>
          /\ secret_number' = secret_number
          /\ tag(last') = "GuessInputChanged" => message' = "You win! [U+1F389]"
          /\ tag(last') = "GuessButtonPressed" =>
                message' = Outcome(guess, secret_number)]_vars

C7_Witness ==
    /\ last = InputMsg(<<"f", "o", "o">>)
    /\ message = "You win! [U+1F389]"

\* C8: update always returns "no command" and never panics; right after a
\* rejected submit the game accepts a number and answers it correctly against
\* the same secret.
C8_Recovers ==
    /\ command = "Command::none"
    /\ (tag(last) = "GuessButtonPressed" /\ message = "Please enter a valid number.")
       => \A g \in GuessValues :
            LET typed == update(Self, InputMsg(Numeral(g)))
                pressed == update(self_of(typed), ButtonMsg)
            IN  /\ command_of(typed) = "Command::none"
                /\ command_of(pressed) = "Command::none"
                /\ secret_of(self_of(pressed)) = secret_number
                /\ message_of(self_of(pressed)) = Expected(g, secret_number)

C8_Witness ==
    /\ tag(last) = "GuessButtonPressed"
    /\ message = "Please enter a valid number."
    /\ guess = <<"f", "o", "o">>
    /\ command = "Command::none"

\* C9: the pressed button reads the input trimmed and as a u32: a number up to
\* 2^32 - 1 with whitespace around it is answered like the number; a number
\* above 2^32 - 1, a negative number and a blank input are rejected with the
\* input kept, never wrapped into a comparison.
C9_TrimmedU32 ==
    [][tag(last') = "GuessButtonPressed" =>
          /\ \A n \in ParseValues :
                guess \in Spelled[n] =>
                    (message' = Expected(n, secret_number) /\ guess' = <<>>)
          /\ guess \in U32MaxPadded =>
                (message' = "Too big!" /\ guess' = <<>>)
          /\ guess \in RejectedPadded
                => (message' = "Please enter a valid number." /\ guess' = guess)]_vars

C9_Witness ==
    /\ tag(last) = "GuessButtonPressed"
    /\ message = "Please enter a valid number."
    /\ guess = <<" ", "4", "2", "9", "4", "9", "6", "7", "3", "4", "6", "\t">>

\* C10: after a submit that produced a comparison message, and in the initial
\* state, the input is empty and pressing the button yields "Please enter a
\* valid number." with the input still empty; two presses in a row never both
\* produce a comparison message.
C10_SecondSubmitRejected ==
    /\ []((tag(last) = "GuessButtonPressed" /\ message \in CompareMessages)
            => guess = <<>>)
    /\ []((tag(last) = "none") =>
            (guess = <<>> /\ message = "Welcome to the Guessing Game!"))
    /\ [][tag(last') = "GuessButtonPressed" =>
            /\ ((tag(last) = "GuessButtonPressed" /\ message \in CompareMessages)
                    \/ tag(last) = "none")
                => (message' = "Please enter a valid number." /\ guess' = <<>>)
            /\ tag(last) = "GuessButtonPressed" => message' \notin CompareMessages]_vars

C10_Witness ==
    /\ tag(last) = "GuessButtonPressed"
    /\ message = "Please enter a valid number."
    /\ guess = <<>>

====
